---- MODULE Spec2Model ----
(***************************************************************************)
(* A model of core/ranking_v2.py: HybridRanker.rank and the scorers it     *)
(* calls.                                                                  *)
(*                                                                         *)
(* Scores are exact decimals held as integers in units of 1/Scale, so that *)
(* 0.45 is 4500 and the veto floor 0.05 is 500.                            *)
(*                                                                         *)
(* Strings are held by the features the code reads from them: a link by    *)
(* the domain and path patterns that occur in it, a text by the noise      *)
(* keywords and the tokens that occur in it, a source by the institution   *)
(* tiers whose keywords occur in it, a date string by its format and the   *)
(* numbers written in it.                                                  *)
(***************************************************************************)
EXTENDS Integers, Sequences, FiniteSets, TLC

VARIABLES
    pc,          \* position of the rank call
    policies,    \* rank's argument: the list of candidate dictionaries
    query,       \* rank's argument: the query string
    official,    \* rank's argument filter_official_only
    has_bm25,    \* module flag HAS_BM25 (whether rank_bm25 was importable)
    now,         \* datetime.now() of the call, as a calendar date
    scored,      \* the scored list after the four scorers ran
    funnel,      \* candidates = scored[:15] after the stage-1 sort
    reranked,    \* candidates after the authority rerank and its sort
    reply,       \* what the verifier call produced
    verified,    \* candidates after _llm_verify_policy and the re-sort
    result,      \* the list rank returns
    error,       \* the exception rank raised, "" when none
    fn,          \* function under test: its arguments and its results
    weights,     \* self.weights of the ranker instance
    requests,    \* the requests sent to the verifier, each the list of the
                 \* candidates (by position) it describes
    calls,       \* the local variables of each of two rank calls running
                 \* on the one ranker instance
    heap,        \* the candidate dictionaries the two calls were handed
    session_state  \* st.session_state of the application: search_results,
                 \* policy_cache, and the event of the last script run

vars == <<pc, policies, query, official, has_bm25, now, scored, funnel,
          reranked, reply, verified, result, error, fn, weights, requests,
          calls, heap, session_state>>

----------------------------------------------------------------------------
(* Bounds of the exploration. *)

MaxCands == 6        \* longest input list explored
MaxReplyLen == 2     \* longest label array in a verifier reply
YearSpan == 2        \* years before the current one that dates range over

(* Score unit. *)
Scale == 10000

(* Program constants of rank. *)
FunnelSize == 15
VerifyTop == 8
MinResults == 5
VetoFloor == 500
LowAuthority == 2500

----------------------------------------------------------------------------
(* Sequence helpers. *)

Range(s) == {s[i] : i \in 1..Len(s)}

Min2(a, b) == IF a <= b THEN a ELSE b

Take(s, n) == SubSeq(s, 1, Min2(n, Len(s)))

RECURSIVE SeqsUpTo(_, _)
SeqsUpTo(S, n) ==
    IF n = 0 THEN {<<>>}
    ELSE LET shorter == SeqsUpTo(S, n - 1)
         IN  shorter \cup {Append(s, x) : s \in {t \in shorter : Len(t) = n - 1}, x \in S}

(* list.sort(key=lambda x: x.final_score, reverse=True): Python's sort is  *)
(* stable, and with reverse=True elements with equal keys keep their      *)
(* original order.                                                        *)
RECURSIVE InsertDesc(_, _)
InsertDesc(s, x) ==
    IF s = <<>> THEN <<x>>
    ELSE IF Head(s).final_score >= x.final_score
         THEN <<Head(s)>> \o InsertDesc(Tail(s), x)
         ELSE <<x>> \o s

RECURSIVE SortByFinal(_)
SortByFinal(s) ==
    IF s = <<>> THEN <<>>
    ELSE InsertDesc(SortByFinal(SubSeq(s, 1, Len(s) - 1)), s[Len(s)])

----------------------------------------------------------------------------
(* HybridRanker's class tables. *)

(* NOISE_KEYWORDS, in list order. *)
NOISE_KEYWORDS ==
    << "xitong", "denglu", "dengru", "zhuce", "baokao", "peixun", "kaoshi",
       "baoming", "xiazaizhongxin", "gongzuomenhu", "guanlipingtai",
       "wangshangxinxixitong", "renyuanguanlixitong", "zhaogushu",
       "zhaogushuomingshu", "zhaomushuomingshu", "zhongbao", "nianbao",
       "jibao", "shangshigonggaoshu", "fenhonggonggao", "yejikuaibao" >>

(* The keywords the high-trust exemption of _calc_authority leaves out. *)
CRITICAL_NOISE == {"xitong", "denglu", "baokao", "kaoshi"}

(* Domain classes a link can fall in: which domain test of the code it   *)
(* meets. sse stands for sse.com.cn / szse.cn, bse for bse.cn.           *)
Domains == {"gov", "org", "sse", "bse", "news", "other"}

(* The text of a title or snippet field. present = FALSE is a dictionary  *)
(* without the key. noise: the NOISE_KEYWORDS that occur in the text;     *)
(* toks: the tokens _tokenize gives for it; hit: how the title relates to *)
(* the query of the call ("query": the whole lower-cased query occurs in  *)
(* it, "kw": a whitespace-separated word of the query with more than two  *)
(* characters occurs in it, "none").                                      *)
Absent == [present |-> FALSE, noise |-> {}, toks |-> {}, hit |-> "none"]

Text(noise, toks, hit) == [present |-> TRUE, noise |-> noise, toks |-> toks, hit |-> hit]

EmptyText == Text({}, {}, "none")

(* A link: id tells link strings apart, dom is its domain class, law and  *)
(* disc tell whether a URL_LAW_PATTERNS / URL_DISCLOSURE_PATTERNS entry   *)
(* occurs in it.                                                          *)
Link(id, dom, law, disc) == [id |-> id, dom |-> dom, law |-> law, disc |-> disc]

(* A source label: the AUTHORITY_LEVELS levels with a keyword in it.      *)
(* A date string: fmt is the shape of the string, y m d the numbers in it.*)
(*   "absent" no date key      "empty"  the empty string                  *)
(*   "cn_ymd" Y nian M yue D ri   "dash" Y-M-D      "slash" Y/M/D         *)
(*   "cn_ym"  Y nian M yue     "year"   a string with the 4 digits Y that *)
(*   matches none of the formats   "text" a string without 4 digits in a  *)
(*   row (such as "3 days ago")                                           *)
DateStr(fmt, y, m, d) == [fmt |-> fmt, y |-> y, m |-> m, d |-> d]

NoDate == DateStr("absent", 0, 0, 0)

(* bm25raw is no key of the dictionary: it is the raw score rank_bm25     *)
(* gives the document when it shares a token with the query.              *)
Policy(link, source, title, snippet, date, bm25raw) ==
    [link |-> link, source |-> source, title |-> title, snippet |-> snippet,
     date |-> date, bm25raw |-> bm25raw]

----------------------------------------------------------------------------
(* _calc_authority *)

(* combined_text = f"{title} {snippet}".lower(): the keywords occurring   *)
(* in it are those of the title and those of the snippet (no keyword      *)
(* holds a space). policy.get(key, '') gives '' for an absent key.        *)
combined_text(policy) == policy.title.noise \cup policy.snippet.noise

is_high_auth_domain(link) == link.dom \in {"gov", "org"}

(* The loop over NOISE_KEYWORDS from position i on: TRUE when it reaches  *)
(* "return 0.0".                                                          *)
RECURSIVE noise_veto_from(_, _)
noise_veto_from(policy, i) ==
    IF i > Len(NOISE_KEYWORDS) THEN FALSE
    ELSE LET noise == NOISE_KEYWORDS[i]
         IN  IF noise \in combined_text(policy)
             THEN IF is_high_auth_domain(policy.link) /\ noise \notin CRITICAL_NOISE
                  THEN noise_veto_from(policy, i + 1)
                  ELSE TRUE
             ELSE noise_veto_from(policy, i + 1)

(* Mutant: the first keyword of the list found in the text decides, the   *)
(* loop stopping at an exempted keyword instead of going on.              *)
noise_veto_first_match(policy) ==
    LET found == {i \in 1..Len(NOISE_KEYWORDS) : NOISE_KEYWORDS[i] \in combined_text(policy)}
    IN  /\ found # {}
        /\ LET first == CHOOSE i \in found : \A j \in found : i <= j
           IN  ~(is_high_auth_domain(policy.link) /\ NOISE_KEYWORDS[first] \notin CRITICAL_NOISE)

(* Mutant: the exemption of secondary keywords applied on every domain.   *)
noise_veto_exempt_everywhere(policy) ==
    combined_text(policy) \cap CRITICAL_NOISE # {}

noise_veto(policy) == noise_veto_from(policy, 1)

domain_base_score(link) ==
    IF link.dom = "gov" THEN 9000
    ELSE IF link.dom = "org" THEN 8500
    ELSE IF link.dom \in {"sse", "bse"} THEN 7000
    ELSE 0

path_adjusted(link, base_score) ==
    LET with_law == IF link.law THEN Min2(Scale, base_score + 1000) ELSE base_score
    IN  IF link.disc THEN 1000 ELSE with_law

(* The first level of AUTHORITY_LEVELS, in dictionary order, with a       *)
(* keyword in f"{source} {link}"; 0 when there is none.                   *)
matched_level(policy) ==
    IF policy.source = {} THEN 0
    ELSE CHOOSE l \in policy.source : \A k \in policy.source : l <= k

calc_authority(policy) ==
    IF noise_veto(policy) THEN 0
    ELSE IF domain_base_score(policy.link) > 0
         THEN path_adjusted(policy.link, domain_base_score(policy.link))
    ELSE IF matched_level(policy) > 0
         THEN Scale - (matched_level(policy) - 1) * 1250
    ELSE IF policy.link.dom = "news" THEN 1000
    ELSE 3000

----------------------------------------------------------------------------
(* _calc_recency *)

IsLeap(y) == (y % 4 = 0 /\ y % 100 # 0) \/ y % 400 = 0

DaysInMonth(y, m) ==
    IF m = 2 THEN (IF IsLeap(y) THEN 29 ELSE 28)
    ELSE IF m \in {4, 6, 9, 11} THEN 30 ELSE 31

(* Whether datetime(y, m, d) exists (MINYEAR is 1). *)
ValidDate(y, m, d) ==
    /\ y >= 1 /\ y <= 9999
    /\ m >= 1 /\ m <= 12
    /\ d >= 1 /\ d <= DaysInMonth(y, m)

(* The day number of a calendar date (days since 1970-01-01), which is    *)
(* what the subtraction of two datetimes counts in.                       *)
DayNumber(y, m, d) ==
    LET yy  == IF m <= 2 THEN y - 1 ELSE y
        era == yy \div 400
        yoe == yy - era * 400
        mp  == IF m > 2 THEN m - 3 ELSE m + 9
        doy == (153 * mp + 2) \div 5 + d - 1
        doe == yoe * 365 + yoe \div 4 - yoe \div 100 + doy
    IN  era * 146097 + doe - 719468

(* Mutant: a year alone is dated the first of January. *)
parse_date_year_start(date_str) ==
    LET day == IF date_str.fmt = "cn_ym" THEN 1 ELSE date_str.d
    IN  IF date_str.fmt \in {"absent", "empty", "text"}
        THEN [ok |-> FALSE, y |-> 0, m |-> 0, d |-> 0]
        ELSE IF date_str.fmt \in {"cn_ymd", "dash", "slash", "cn_ym"}
                /\ ValidDate(date_str.y, date_str.m, day)
        THEN [ok |-> TRUE, y |-> date_str.y, m |-> date_str.m, d |-> day]
        ELSE IF ValidDate(date_str.y, 1, 1)
        THEN [ok |-> TRUE, y |-> date_str.y, m |-> 1, d |-> 1]
        ELSE [ok |-> FALSE, y |-> 0, m |-> 0, d |-> 0]

(* The for/else over the four strptime formats and the year fallback:     *)
(* the date the string is read as. ok = FALSE: "return 0.3" or the        *)
(* exception handler's 0.3. strptime gives day 1 to a year-month string.  *)
parse_date(date_str) ==
    LET day == IF date_str.fmt = "cn_ym" THEN 1 ELSE date_str.d
    IN  IF date_str.fmt \in {"absent", "empty", "text"}
        THEN [ok |-> FALSE, y |-> 0, m |-> 0, d |-> 0]
        ELSE IF date_str.fmt \in {"cn_ymd", "dash", "slash", "cn_ym"}
                /\ ValidDate(date_str.y, date_str.m, day)
        THEN [ok |-> TRUE, y |-> date_str.y, m |-> date_str.m, d |-> day]
        \* no format matched: re.search(r"(\d{4})") finds the year
        ELSE IF ValidDate(date_str.y, 6, 15)
        THEN [ok |-> TRUE, y |-> date_str.y, m |-> 6, d |-> 15]
        ELSE [ok |-> FALSE, y |-> 0, m |-> 0, d |-> 0]

(* days_ago = (datetime.now() - date).days: date is a midnight, so the    *)
(* floor of the difference is the difference of the day numbers.          *)
days_ago(date, today) ==
    DayNumber(today.y, today.m, today.d) - DayNumber(date.y, date.m, date.d)

(* Mutant: the half-year and the one-year bands swapped. *)
recency_decay_swapped(days) ==
    IF days <= 30 THEN 10000
    ELSE IF days <= 90 THEN 9000
    ELSE IF days <= 180 THEN 6000
    ELSE IF days <= 365 THEN 8000
    ELSE IF days <= 730 THEN 4000
    ELSE 2000

recency_decay(days) ==
    IF days <= 30 THEN 10000
    ELSE IF days <= 90 THEN 9000
    ELSE IF days <= 180 THEN 8000
    ELSE IF days <= 365 THEN 6000
    ELSE IF days <= 730 THEN 4000
    ELSE 2000

calc_recency(policy, today) ==
    LET date == parse_date(policy.date)
    IN  IF ~date.ok THEN 3000 ELSE recency_decay(days_ago(date, today))

----------------------------------------------------------------------------
(* _tokenize, _calc_semantic_scores, _calc_bm25_scores *)

(* A query: long is len(query) > 4, haskw is whether query.split() holds  *)
(* a word of more than two characters, toks is _tokenize(query).          *)
Query(long, haskw, toks) == [long |-> long, haskw |-> haskw, toks |-> toks]

(* _tokenize of f"{title} {snippet}"; an absent key reads as ''.          *)
text_tokens(policy) == policy.title.toks \cup policy.snippet.toks

(* Jaccard similarity of the two token sets. *)
semantic_score(policy, q) ==
    LET text == text_tokens(policy)
    IN  IF q.toks = {} \/ text = {} THEN 0
        ELSE (Cardinality(q.toks \cap text) * Scale) \div Cardinality(q.toks \cup text)

(* BM25Okapi(corpus) of rank_bm25 divides by the number of distinct terms *)
(* of the corpus: it raises ZeroDivisionError when every document of the  *)
(* corpus is empty.                                                       *)
bm25_index_fails(docs) == \A i \in 1..Len(docs) : text_tokens(docs[i]) = {}

(* bm25.get_scores(query_tokens)[i]: a document sharing no token with the *)
(* query scores 0; any other gets the score the library computes, which   *)
(* the candidate carries as bm25raw (it can be negative: rank_bm25 swaps  *)
(* a negative idf for 0.25 * the average idf, itself negative when the    *)
(* terms occur in most documents).                                        *)
bm25_raw(policy, q) ==
    IF text_tokens(policy) \cap q.toks = {} THEN 0 ELSE policy.bm25raw

RECURSIVE SeqMax(_)
SeqMax(s) == IF Len(s) = 1 THEN s[1]
             ELSE LET m == SeqMax(Tail(s)) IN IF s[1] >= m THEN s[1] ELSE m

(* The normalised scores, one per document. *)
calc_bm25_scores(docs, q) ==
    LET scores == [i \in 1..Len(docs) |-> bm25_raw(docs[i], q)]
        max_score == IF SeqMax(scores) > 0 THEN SeqMax(scores) ELSE 1
    IN  [i \in 1..Len(docs) |-> (scores[i] * Scale) \div max_score]

----------------------------------------------------------------------------
(* _filter_official *)

(* GOV_DOMAINS lists .gov.cn, .org.cn, sse.com.cn and szse.cn (not        *)
(* bse.cn); the source test reads the first five AUTHORITY_LEVELS.        *)
is_official(policy) ==
    \/ policy.link.dom \in {"gov", "org", "sse"}
    \/ \E l \in policy.source : l <= 5

(* The positions of the input list that _filter_official keeps. *)
filter_official(ps) ==
    LET kept == SelectSeq([i \in 1..Len(ps) |-> i], LAMBDA i : is_official(ps[i]))
    IN  IF kept # <<>> THEN kept ELSE [i \in 1..Len(ps) |-> i]

----------------------------------------------------------------------------
(* rank *)

(* A ScoredPolicy. pos is the position in the input list of the dictionary *)
(* it refers to (sp.policy is a reference, never a copy).                  *)
ScoredPolicy(pos, authority, bm25, semantic, recency, final) ==
    [pos |-> pos, authority_score |-> authority, bm25_score |-> bm25,
     semantic_score |-> semantic, recency_score |-> recency, final_score |-> final]

policy_of(sp) == policies[sp.pos]

(* Lines 125-145: the optional pre-filter and the four scorers. *)
score_all(ps, q, off, bm, today) ==
    LET kept == IF off THEN filter_official(ps) ELSE [i \in 1..Len(ps) |-> i]
        docs == [i \in 1..Len(kept) |-> ps[kept[i]]]
        bm25 == IF bm THEN calc_bm25_scores(docs, q) ELSE [i \in 1..Len(kept) |-> 0]
    IN  [i \in 1..Len(kept) |->
            ScoredPolicy(kept[i], calc_authority(docs[i]), bm25[i],
                         semantic_score(docs[i], q), calc_recency(docs[i], today), 0)]

(* Lines 150-151. *)
relevance(sp) == (sp.bm25_score + sp.semantic_score) \div 2

stage1_score(sp) == (7 * relevance(sp) + 3 * sp.recency_score) \div 10

(* Lines 163-169. *)
title_bonus(title, q) ==
    IF q.long /\ title.hit = "query" THEN 2000
    ELSE IF q.haskw /\ title.hit \in {"query", "kw"} THEN 1000
    ELSE 0

(* Line 171. *)
stage2_score(sp, bonus) ==
    (6 * (sp.authority_score + bonus) + 4 * sp.final_score) \div 10

(* Mutant: the stage-1 sort without the truncation. *)
funnel_of_untruncated(sc) ==
    SortByFinal([i \in 1..Len(sc) |-> [sc[i] EXCEPT !.final_score = stage1_score(sc[i])]])

(* Lines 149-156. *)
funnel_of(sc) ==
    Take(SortByFinal([i \in 1..Len(sc) |-> [sc[i] EXCEPT !.final_score = stage1_score(sc[i])]]),
         FunnelSize)

(* Lines 162-173. *)
rerank_of(cands, ps, q) ==
    SortByFinal([i \in 1..Len(cands) |->
        [cands[i] EXCEPT !.final_score = stage2_score(cands[i], title_bonus(ps[cands[i].pos].title, q))]])

----------------------------------------------------------------------------
(* _llm_verify_policy *)

(* What chain.invoke produced.                                            *)
(*   "raise"   the call raised (network error, timeout)                   *)
(*   "nomatch" the response text holds no [...] for the regular           *)
(*             expression to find                                         *)
(*   "badjson" the matched text is no JSON: json.loads raises             *)
(*   "labels"  json.loads gave the list labels                            *)
Reply(kind, labels) == [kind |-> kind, labels |-> labels]

NoReply == Reply("none", <<>>)

(* Lines 436-445; a label other than "A", "B", "C" changes nothing. *)
apply_label(sp, label) ==
    IF label = "B" THEN [sp EXCEPT !.authority_score = 0, !.final_score = 0]
    ELSE IF label = "C" THEN [sp EXCEPT !.final_score = (3 * sp.final_score) \div 10]
    ELSE IF label = "A" THEN [sp EXCEPT !.final_score = Min2(Scale, (12 * sp.final_score) \div 10)]
    ELSE sp

(* Mutant: a failed verification zeroes the candidates, as label "B" does. *)
llm_verify_policy_zeroing(cands, rep) ==
    IF rep.kind # "labels" THEN [i \in 1..Len(cands) |-> apply_label(cands[i], "B")]
    ELSE [i \in 1..Len(cands) |->
            IF i <= Len(rep.labels) THEN apply_label(cands[i], rep.labels[i])
            ELSE cands[i]]

(* Mutant: a reply with more labels than candidates is applied to none. *)
llm_verify_policy_strict_length(cands, rep) ==
    IF rep.kind # "labels" \/ Len(rep.labels) > Len(cands) THEN cands
    ELSE [i \in 1..Len(cands) |->
            IF i <= Len(rep.labels) THEN apply_label(cands[i], rep.labels[i])
            ELSE cands[i]]

(* Lines 427-448 on the list handed in: every exception is swallowed. *)
llm_verify_policy(cands, rep) ==
    IF rep.kind # "labels" THEN cands
    ELSE [i \in 1..Len(cands) |->
            IF i <= Len(rep.labels) THEN apply_label(cands[i], rep.labels[i])
            ELSE cands[i]]

(* Line 418, before the try: sp.policy.get('snippet')[:100] subscripts    *)
(* None when the dictionary has no snippet key.                           *)
data_list_fails(cands, ps) ==
    \E i \in 1..Len(cands) : ~ps[cands[i].pos].snippet.present

(* Lines 416-429: the one request of a call describes the candidates of  *)
(* the list handed in, in its order.                                      *)
request_of(cands) == [i \in 1..Len(cands) |-> cands[i].pos]

(* Mutant: no sort after the verification. *)
verify_of_unsorted(cands, rep) ==
    llm_verify_policy(Take(cands, VerifyTop), rep)
    \o SubSeq(cands, Min2(VerifyTop, Len(cands)) + 1, Len(cands))

(* Lines 176-178: the first VerifyTop candidates are verified in place,   *)
(* then the whole list is sorted again.                                   *)
verify_of(cands, rep) ==
    SortByFinal(llm_verify_policy(Take(cands, VerifyTop), rep)
                \o SubSeq(cands, Min2(VerifyTop, Len(cands)) + 1, Len(cands)))

----------------------------------------------------------------------------
(* rank: the result list, lines 181-215 *)

(* round(x, 3), ties to the even digit. *)
Round3(x) ==
    LET q == x \div 10
        r == x % 10
    IN  IF r < 5 THEN q * 10
        ELSE IF r > 5 THEN (q + 1) * 10
        ELSE IF q % 2 = 0 THEN q * 10 ELSE (q + 1) * 10

(* An entry of the result: the copy of the dictionary at pos with its     *)
(* "_scores" dictionary, keys being the keys that dictionary has.         *)
regular_entry(sp) ==
    [pos |-> sp.pos,
     keys |-> {"authority", "relevance", "recency", "final"},
     authority |-> Round3(sp.authority_score),
     relevance |-> Round3(relevance(sp)),
     recency |-> Round3(sp.recency_score),
     final |-> Round3(sp.final_score),
     note |-> ""]

(* Mutant: the backfilled entry built like a regular one, without note. *)
backfill_entry_unmarked(sp) == regular_entry(sp)

backfill_entry(sp) ==
    [pos |-> sp.pos,
     keys |-> {"authority", "final", "note"},
     authority |-> Round3(sp.authority_score),
     relevance |-> 0,
     recency |-> 0,
     final |-> Round3(sp.final_score),
     note |-> "backfill"]

(* Line 184, negated. *)
passes_veto(sp) == ~(sp.authority_score <= 0 \/ sp.final_score <= VetoFloor)

(* Lines 182-198, from candidate i on. *)
RECURSIVE filter_loop(_, _, _)
filter_loop(cands, i, res) ==
    IF i > Len(cands) THEN res
    ELSE IF ~passes_veto(cands[i]) THEN filter_loop(cands, i + 1, res)
    ELSE IF Len(res) >= MinResults /\ cands[i].authority_score < LowAuthority
         THEN filter_loop(cands, i + 1, res)
    ELSE filter_loop(cands, i + 1, Append(res, regular_entry(cands[i])))

(* Mutant: the backfill without the seen_links test. *)
RECURSIVE backfill_loop_unchecked(_, _, _, _, _)
backfill_loop_unchecked(cands, ps, i, res, seen_links) ==
    IF i > Len(cands) \/ Len(res) >= MinResults THEN res
    ELSE backfill_loop_unchecked(cands, ps, i + 1, Append(res, backfill_entry(cands[i])), seen_links)

(* Lines 203-213, from candidate i on; seen_links is built once. *)
RECURSIVE backfill_loop(_, _, _, _, _)
backfill_loop(cands, ps, i, res, seen_links) ==
    IF i > Len(cands) \/ Len(res) >= MinResults THEN res
    ELSE IF ps[cands[i].pos].link \notin seen_links
         THEN backfill_loop(cands, ps, i + 1, Append(res, backfill_entry(cands[i])), seen_links)
    ELSE backfill_loop(cands, ps, i + 1, res, seen_links)

(* Mutant: no backfill. *)
assemble_without_backfill(cands, ps) == filter_loop(cands, 1, <<>>)

assemble(cands, ps) ==
    LET filtered == filter_loop(cands, 1, <<>>)
    IN  IF Len(filtered) < MinResults /\ Len(cands) > Len(filtered)
        THEN backfill_loop(cands, ps, 1, filtered,
                           {ps[filtered[k].pos].link : k \in 1..Len(filtered)})
        ELSE filtered

----------------------------------------------------------------------------
(* The inputs explored. *)

(* The day of the calls. *)
Today == [y |-> 2025, m |-> 6, d |-> 30]

(* One-word queries: "policy" (more than four characters), "rule" (four   *)
(* characters), and the empty query. t1 is the token of the query word.   *)
Queries ==
    {Query(TRUE, TRUE, {"t1"}), Query(FALSE, TRUE, {"t1"}), Query(FALSE, FALSE, {})}

(* Sample candidates, each with the link id it is given; <q> is the query *)
(* word.                                                                  *)
(*  1 title "<Q>", snippet "<q> t2", a /law/ link on csrc.gov.cn, source  *)
(*    a level-2 regulator, date "2025-06-15"                              *)
(*  2 title "<q>nianbao" (an annual report), snippet "<q>", a link on a   *)
(*    NEWS_DOMAINS site, source a level-7 paper, date "2024"              *)
(*  3 empty title and snippet, a link on a NEWS_DOMAINS site, empty       *)
(*    source, no date key                                                 *)
(*  4 title "xitong<q>" (a system page), snippet "<q>", the link features *)
(*    and source of sample 1, date "2025 nian 5 yue"                      *)
(*  5 title "t2", no snippet key, a link on another site, date "3 days    *)
(*    ago"                                                                *)
(*  6 title "t3 zhaogushu" (a prospectus), snippet "t2", a link on a      *)
(*    NEWS_DOMAINS site, empty source, date "2023/01/01"                  *)
(*  7 as 6, with no date key                                              *)
Sample(k, id) ==
    CASE k = 1 -> Policy(Link(id, "gov", TRUE, FALSE), {2},
                         Text({}, {"t1"}, "query"), Text({}, {"t1", "t2"}, "none"),
                         DateStr("dash", 2025, 6, 15), 2)
      [] k = 2 -> Policy(Link(id, "news", FALSE, FALSE), {7},
                         Text({"nianbao"}, {"t3"}, "query"), Text({}, {"t1"}, "none"),
                         DateStr("year", 2024, 0, 0), 1)
      [] k = 3 -> Policy(Link(id, "news", FALSE, FALSE), {},
                         EmptyText, EmptyText, NoDate, 0)
      [] k = 4 -> Policy(Link(id, "gov", TRUE, FALSE), {2},
                         Text({"xitong"}, {"t4"}, "query"), Text({}, {"t1"}, "none"),
                         DateStr("cn_ym", 2025, 5, 0), -1)
      [] k = 6 -> Policy(Link(id, "news", FALSE, FALSE), {},
                         Text({"zhaogushu"}, {"t3"}, "none"), Text({}, {"t2"}, "none"),
                         DateStr("slash", 2023, 1, 1), 0)
      [] k = 7 -> Policy(Link(id, "news", FALSE, FALSE), {},
                         Text({"zhaogushu"}, {"t3"}, "none"), Text({}, {"t2"}, "none"),
                         NoDate, 0)
      [] OTHER -> Policy(Link(id, "other", FALSE, FALSE), {},
                         Text({}, {"t2"}, "none"), Absent,
                         DateStr("text", 0, 0, 0), 0)

(* The non-decreasing sequences over 1..hi of length n or less. *)
RECURSIVE SortedSeqs(_, _)
SortedSeqs(n, hi) ==
    IF n = 0 THEN {<<>>}
    ELSE LET shorter == SortedSeqs(n - 1, hi)
         IN  shorter \cup
             UNION {{Append(s, k) : k \in (IF s = <<>> THEN 1 ELSE s[Len(s)])..hi} :
                    s \in {t \in shorter : Len(t) = n - 1}}

(* The input lists: up to MaxCands samples with link ids all different,   *)
(* and shorter lists with link ids all the same, so that samples with the *)
(* same link features have the same link.                                 *)
InputList(ks, unique) ==
    [i \in 1..Len(ks) |-> Sample(ks[i], IF unique THEN i ELSE 0)]

Inputs ==
    {InputList(ks, TRUE) : ks \in SortedSeqs(MaxCands, 5)}
    \cup {InputList(ks, FALSE) : ks \in SortedSeqs(MaxCands - 2, 5)}

Labels == {"A", "B", "C", "X"}

Replies ==
    {Reply("raise", <<>>), Reply("nomatch", <<>>), Reply("badjson", <<>>)}
    \cup {Reply("labels", ls) : ls \in SeqsUpTo(Labels, MaxReplyLen)}

----------------------------------------------------------------------------
(* The rank call as a state machine. *)

NoPolicy == Policy(Link(0, "other", FALSE, FALSE), {}, Absent, Absent, NoDate, 0)

(* No scorer was applied yet. *)
NoFn == [op |-> "none", a |-> NoPolicy, b |-> NoPolicy, ra |-> 0, rb |-> 0]

(* Lines 100-105: the weights argument of the constructor, or None. *)
WeightsArg(given, value) == [given |-> given, value |-> value]

Weights(authority, bm25, semantic, recency) ==
    [authority |-> authority, bm25 |-> bm25, semantic |-> semantic, recency |-> recency]

DefaultWeights == Weights(4500, 2500, 2000, 1000)

NoWeights == WeightsArg(FALSE, DefaultWeights)

CallIds == {1, 2}

(* A rank call that has not started. *)
IdleCall ==
    [pc |-> "idle", lst |-> 0, policies |-> <<>>, query |-> Query(FALSE, FALSE, {}),
     scored |-> <<>>, funnel |-> <<>>, reranked |-> <<>>, reply |-> NoReply,
     verified |-> <<>>, result |-> <<>>, error |-> ""]

(* No candidate dictionaries and no lists were built yet. *)
EmptyHeap == [dicts |-> <<>>, lists |-> <<>>]

(* Lines 152-155 of app.py: the session before the first script run. *)
NoEvent == [kind |-> "none", select_indices |-> <<>>]

NewSession == [search_results |-> <<>>, policy_cache |-> <<>>, event |-> NoEvent]

(* HybridRanker(weights): the state after construction. *)
Construct(w) ==
    /\ pc = "idle"
    /\ policies = <<>>
    /\ query = Query(FALSE, FALSE, {})
    /\ official = FALSE
    /\ has_bm25 = TRUE
    /\ now = Today
    /\ scored = <<>>
    /\ funnel = <<>>
    /\ reranked = <<>>
    /\ reply = NoReply
    /\ verified = <<>>
    /\ result = <<>>
    /\ error = ""
    /\ fn = NoFn
    /\ weights = (IF w.given THEN w.value ELSE DefaultWeights)
    /\ requests = <<>>
    /\ calls = [c \in CallIds |-> IdleCall]
    /\ heap = EmptyHeap
    /\ session_state = NewSession

(* HybridRanker(), as app.py builds it. *)
Init == Construct(NoWeights)

(* ranker.rank(policies, query, filter_official_only) is called. *)
Call(ps, q, off, bm) ==
    /\ pc = "idle"
    /\ pc' = "called"
    /\ policies' = ps
    /\ query' = q
    /\ official' = off
    /\ has_bm25' = bm
    /\ UNCHANGED <<session_state, weights, requests, calls, heap, now, scored, funnel, reranked, reply, verified, result, error, fn>>

(* Lines 122-123. *)
ReturnEmpty ==
    /\ pc = "called"
    /\ policies = <<>>
    /\ pc' = "done"
    /\ result' = <<>>
    /\ UNCHANGED <<session_state, weights, requests, calls, heap, policies, query, official, has_bm25, now, scored, funnel,
                   reranked, reply, verified, error, fn>>

(* The corpus the BM25 index is built over: the pre-filtered list. *)
corpus_docs ==
    LET kept == IF official THEN filter_official(policies)
                ELSE [i \in 1..Len(policies) |-> i]
    IN  [i \in 1..Len(kept) |-> policies[kept[i]]]

(* Line 304 raises inside _calc_bm25_scores, which nothing catches. *)
Bm25Raises ==
    /\ pc = "called"
    /\ policies # <<>>
    /\ has_bm25
    /\ bm25_index_fails(corpus_docs)
    /\ pc' = "raised"
    /\ error' = "ZeroDivisionError"
    /\ UNCHANGED <<session_state, weights, requests, calls, heap, policies, query, official, has_bm25, now, scored, funnel,
                   reranked, reply, verified, result, fn>>

(* Lines 125-145. *)
Score ==
    /\ pc = "called"
    /\ policies # <<>>
    /\ ~(has_bm25 /\ bm25_index_fails(corpus_docs))
    /\ pc' = "scored"
    /\ scored' = score_all(policies, query, official, has_bm25, now)
    /\ UNCHANGED <<session_state, weights, requests, calls, heap, policies, query, official, has_bm25, now, funnel,
                   reranked, reply, verified, result, error, fn>>

(* Lines 149-156. *)
Funnel ==
    /\ pc = "scored"
    /\ pc' = "funnel"
    /\ funnel' = funnel_of(scored)
    /\ UNCHANGED <<session_state, weights, requests, calls, heap, policies, query, official, has_bm25, now, scored,
                   reranked, reply, verified, result, error, fn>>

(* Lines 162-173. *)
Rerank ==
    /\ pc = "funnel"
    /\ pc' = "reranked"
    /\ reranked' = rerank_of(funnel, policies, query)
    /\ UNCHANGED <<session_state, weights, requests, calls, heap, policies, query, official, has_bm25, now, scored, funnel,
                   reply, verified, result, error, fn>>

(* Line 418 raises while the prompt is built, before the try. *)
VerifyRaises ==
    /\ pc = "reranked"
    /\ data_list_fails(Take(reranked, VerifyTop), policies)
    /\ pc' = "raised"
    /\ error' = "TypeError"
    /\ UNCHANGED <<session_state, weights, requests, calls, heap, policies, query, official, has_bm25, now, scored, funnel,
                   reranked, reply, verified, result, fn>>

(* Lines 176-178: the verifier is called once and answers with rep. *)
Verify(rep) ==
    /\ pc = "reranked"
    /\ ~data_list_fails(Take(reranked, VerifyTop), policies)
    /\ pc' = "verified"
    /\ reply' = rep
    /\ requests' = Append(requests, request_of(Take(reranked, VerifyTop)))
    /\ verified' = verify_of(reranked, rep)
    /\ UNCHANGED <<session_state, weights, calls, heap, policies, query, official, has_bm25, now, scored, funnel,
                   reranked, result, error, fn>>

(* Lines 181-215. *)
Assemble ==
    /\ pc = "verified"
    /\ pc' = "done"
    /\ result' = assemble(verified, policies)
    /\ UNCHANGED <<session_state, weights, requests, calls, heap, policies, query, official, has_bm25, now, scored, funnel,
                   reranked, reply, verified, error, fn>>

Next ==
    \/ /\ pc = "idle"
       /\ \E ps \in Inputs, q \in Queries, off \in BOOLEAN, bm \in BOOLEAN :
             Call(ps, q, off, bm)
    \/ ReturnEmpty
    \/ Bm25Raises
    \/ Score
    \/ Funnel
    \/ Rerank
    \/ VerifyRaises
    \/ /\ pc = "reranked"
       /\ \E rep \in Replies : Verify(rep)
    \/ Assemble

Spec == Init /\ [][Next]_vars

----------------------------------------------------------------------------
(* The rank call on long lists: more candidates than the funnel keeps and *)
(* than the verifier is shown, and rankers built with weights.            *)

Repeat(x, n) == [i \in 1..n |-> x]

WideKinds == {1, 2, 3, 5, 6, 7}

WideRuns == {0, 1, 4, 9, 16}

(* Lists of 20 candidates or fewer: a run of one sample followed by a run *)
(* of another, all links different.                                       *)
WideShapes ==
    {Repeat(a, n) \o Repeat(b, m) :
        a \in WideKinds, b \in WideKinds, n \in WideRuns, m \in WideRuns}

WideInputs == {InputList(ks, TRUE) : ks \in {l \in WideShapes : Len(l) <= 20}}

(* The verifier fails, or labels the first candidates all alike. *)
WideReplies ==
    {Reply("raise", <<>>)}
    \cup {Reply("labels", Repeat(l, n)) : l \in Labels, n \in {2, 8}}

(* HybridRanker(), or HybridRanker(weights) with all the weight on one    *)
(* sub-score.                                                             *)
WeightsArgs ==
    {NoWeights, WeightsArg(TRUE, Weights(Scale, 0, 0, 0)),
     WeightsArg(TRUE, Weights(0, 0, 0, Scale))}

InitWide == \E w \in WeightsArgs : Construct(w)

NextWide ==
    \/ /\ pc = "idle"
       /\ \E ps \in WideInputs, q \in Queries, bm \in BOOLEAN :
             Call(ps, q, FALSE, bm)
    \/ ReturnEmpty
    \/ Bm25Raises
    \/ Score
    \/ Funnel
    \/ Rerank
    \/ VerifyRaises
    \/ /\ pc = "reranked"
       /\ \E rep \in WideReplies : Verify(rep)
    \/ Assemble

SpecWide == InitWide /\ [][NextWide]_vars

----------------------------------------------------------------------------
(* The scorers on their own: each is applied to two candidate             *)
(* dictionaries a and b, giving ra and rb.                                *)

AuthorityNoise ==
    {{}, {"nianbao"}, {"xitong"}, {"zhuce", "kaoshi"}, {"xitong", "nianbao"}}

AuthoritySources == {{}, {1}, {2, 6}, {5}, {7}, {8}}

AuthorityTexts ==
    {Absent} \cup {Text(n, {}, "none") : n \in AuthorityNoise}

(* The candidates _calc_authority is explored on. *)
AuthorityPolicies ==
    {Policy(Link(1, dom, law, disc), src, title, snippet, NoDate, 0) :
        dom \in Domains, law \in BOOLEAN, disc \in BOOLEAN,
        src \in AuthoritySources, title \in AuthorityTexts,
        snippet \in {Absent, Text({}, {}, "none"), Text({"zhaogushu"}, {}, "none")}}

(* _calc_authority on a candidate and on the same candidate at a link of  *)
(* another domain class.                                                  *)
ApplyAuthority(p, dom) ==
    /\ fn.op = "none"
    /\ LET other == [p EXCEPT !.link.dom = dom]
       IN  fn' = [op |-> "authority", a |-> p, b |-> other,
                  ra |-> calc_authority(p), rb |-> calc_authority(other)]
    /\ UNCHANGED <<session_state, weights, requests, calls, heap, pc, policies, query, official, has_bm25, now, scored, funnel,
                   reranked, reply, verified, result, error>>

NextAuthority ==
    /\ fn.op = "none"
    /\ \E p \in AuthorityPolicies, dom \in Domains : ApplyAuthority(p, dom)

SpecAuthority == Init /\ [][NextAuthority]_vars

RecencyYears == {0} \cup ((Today.y - YearSpan)..Today.y)

RecencyMonths == {1, 2, 5, 6, 12, 13}

RecencyDays == {1, 15, 31}

(* The date strings _calc_recency is explored on. *)
DateStrs ==
    {DateStr(f, 0, 0, 0) : f \in {"absent", "empty", "text"}}
    \cup {DateStr("year", y, 0, 0) : y \in RecencyYears}
    \cup {DateStr("cn_ym", y, m, 0) : y \in RecencyYears, m \in RecencyMonths}
    \cup {DateStr(f, y, m, d) : f \in {"cn_ymd", "dash", "slash"},
                                y \in RecencyYears, m \in RecencyMonths, d \in RecencyDays}

Todays == {Today, [y |-> 2025, m |-> 1, d |-> 10]}

(* _calc_recency on two candidates that differ in their date only. *)
ApplyRecency(da, db, today) ==
    /\ fn.op = "none"
    /\ now' = today
    /\ LET a == [Sample(1, 1) EXCEPT !.date = da]
           b == [Sample(1, 1) EXCEPT !.date = db]
       IN  fn' = [op |-> "recency", a |-> a, b |-> b,
                  ra |-> calc_recency(a, today), rb |-> calc_recency(b, today)]
    /\ UNCHANGED <<session_state, weights, requests, calls, heap, pc, policies, query, official, has_bm25, scored, funnel,
                   reranked, reply, verified, result, error>>

NextRecency ==
    /\ fn.op = "none"
    /\ \E da \in DateStrs, db \in DateStrs, today \in Todays : ApplyRecency(da, db, today)

SpecRecency == Init /\ [][NextRecency]_vars

----------------------------------------------------------------------------
(* Vocabulary of the properties. *)

Returned == pc = "done"

EntryLink(e) == policies[e.pos].link

(* The candidate of the verified list an entry was made from. *)
CandidateOf(e) == CHOOSE sp \in Range(verified) : sp.pos = e.pos

(* The veto of the result filter, as the properties word it: authority    *)
(* score <= 0 or final score <= 0.05.                                     *)
FailedVeto(sp) == sp.authority_score <= 0 \/ sp.final_score <= 500

PassedCount == Cardinality({i \in 1..Len(verified) : ~FailedVeto(verified[i])})

UniqueByLink(ps) ==
    \A i, j \in 1..Len(ps) : i # j => ps[i].link # ps[j].link

ResultUniqueByLink ==
    \A i, j \in 1..Len(result) : i # j => EntryLink(result[i]) # EntryLink(result[j])

IsBackfill(e) == e.note = "backfill"

RegularCount == Cardinality({i \in 1..Len(result) : ~IsBackfill(result[i])})

(* The links of the pool rank works on (the input list, after the         *)
(* official-only pre-filter when it was asked for).                       *)
PoolLinks == {policy_of(scored[i]).link : i \in 1..Len(scored)}

----------------------------------------------------------------------------
(* C1: for any input list, also one in which several candidates share a   *)
(* link, the list rank returns holds each link at most once.              *)
C1_ResultHasNoDuplicateLink == Returned => ResultUniqueByLink

(* C2: backfill guarantee: when fewer than 5 candidates pass the veto     *)
(* filter, the returned list has exactly 5 entries if the pool has at     *)
(* least 5 unique links, and as many entries as the pool has unique links *)
(* otherwise.                                                             *)
C2_BackfillReachesMinimum ==
    (Returned /\ policies # <<>> /\ PassedCount < 5)
        => Len(result) = Min2(5, Cardinality(PoolLinks))

(* C3: an entry of the returned list carries note = "backfill" if and     *)
(* only if its candidate failed the veto filter, and then it was added    *)
(* only because fewer than 5 entries had passed; an entry that passed     *)
(* carries no note.                                                       *)
C3_BackfillMarkerIffVetoed ==
    Returned =>
        \A i \in 1..Len(result) :
            /\ IsBackfill(result[i]) <=> FailedVeto(CandidateOf(result[i]))
            /\ IsBackfill(result[i]) <=> "note" \in result[i].keys
            /\ IsBackfill(result[i]) => RegularCount < 5
            /\ ~IsBackfill(result[i]) => result[i].note = ""

C3_Witness ==
    /\ Returned
    /\ \E i, j \in 1..Len(result) :
          /\ IsBackfill(result[i]) /\ FailedVeto(CandidateOf(result[i]))
          /\ ~IsBackfill(result[j]) /\ ~FailedVeto(CandidateOf(result[j]))

(* C4: when the candidates given to rank are unique by link, the backfill *)
(* step adds no candidate whose link is already in the result (that of an *)
(* entry that passed, or of an entry backfilled before), so the returned  *)
(* list is unique by link.                                                *)
C4_BackfillAddsNoSeenLink ==
    (Returned /\ UniqueByLink(policies)) =>
        /\ ResultUniqueByLink
        /\ \A i \in 1..Len(result) :
              IsBackfill(result[i]) =>
                  \A j \in 1..(i - 1) : EntryLink(result[j]) # EntryLink(result[i])

C4_Witness ==
    /\ Returned
    /\ UniqueByLink(policies)
    /\ Len(policies) > 5
    /\ \E i, j \in 1..Len(result) : IsBackfill(result[i]) /\ ~IsBackfill(result[j])

(* C5: verifier fault tolerance: when the verifier call raises, or its    *)
(* reply holds no parseable JSON array, rank does not raise, every        *)
(* candidate keeps exactly the scores it had before the verification      *)
(* stage, and the returned list is not empty.                             *)
VerifierFailed == reply.kind \in {"raise", "nomatch", "badjson"}

C5_VerifierFaultTolerance ==
    VerifierFailed =>
        /\ pc \in {"verified", "done"}
        /\ error = ""
        /\ verified = reranked
        /\ Returned => result # <<>>

C5_Witness ==
    /\ Returned
    /\ reply.kind = "raise"
    /\ verified = reranked
    /\ Len(result) > 1

(* C6: rank returns an empty list if and only if its input list is empty: *)
(* an empty input gives an empty list with no verifier call and no error, *)
(* and a call on a non-empty input that returns, returns a non-empty      *)
(* list, also when every candidate is vetoed.                             *)
C6_EmptyIffInputEmpty ==
    /\ Returned => (result = <<>> <=> policies = <<>>)
    /\ (pc # "idle" /\ policies = <<>>) =>
          /\ pc \in {"called", "done"}
          /\ reply = NoReply
          /\ error = ""

C6_Witness ==
    /\ Returned
    /\ policies # <<>>
    /\ PassedCount = 0
    /\ result # <<>>

(* C7: rank never raises for a data-quality problem of its candidates     *)
(* (absent date or source, empty or absent title or snippet), whatever    *)
(* the verifier does.                                                     *)
C7_NeverRaises == pc # "raised" /\ error = ""

(* C8: a candidate whose title or snippet holds a noise keyword and whose *)
(* link is on no high-trust domain gets authority score 0 and is never a  *)
(* regular entry of the result: it is there only as a backfill-marked     *)
(* entry, when fewer than 5 candidates passed the filter.                 *)
NoisyUntrusted(policy) ==
    /\ policy.title.noise \cup policy.snippet.noise # {}
    /\ policy.link.dom \notin {"gov", "org"}

C8_VetoCorrectness ==
    /\ \A i \in 1..Len(scored) :
          NoisyUntrusted(policy_of(scored[i])) => scored[i].authority_score = 0
    /\ Returned =>
          \A i \in 1..Len(result) :
              NoisyUntrusted(policies[result[i].pos]) =>
                  /\ IsBackfill(result[i])
                  /\ result[i].authority = 0
                  /\ RegularCount < 5
                  /\ PassedCount < 5

C8_Witness ==
    /\ Returned
    /\ \E i \in 1..Len(result) :
          NoisyUntrusted(policies[result[i].pos]) /\ IsBackfill(result[i])
    /\ \E i \in 1..Len(verified) :
          /\ NoisyUntrusted(policy_of(verified[i]))
          /\ \A j \in 1..Len(result) : result[j].pos # verified[i].pos

(* C9: authority monotonicity: of two candidates that differ only in the  *)
(* domain of the link, one on a government domain and one on a news       *)
(* domain, the one on the government domain has the greater or equal      *)
(* authority score.                                                       *)
C9_GovernmentAtLeastNews ==
    (fn.op = "authority" /\ fn.a.link.dom = "gov" /\ fn.b.link.dom = "news")
        => fn.ra >= fn.rb

(* C10: recency monotonicity: of two candidates that differ only in the   *)
(* date string, each in an accepted format or a year-only form, the one   *)
(* published more recently has the greater or equal recency score.        *)
(* A year-month string stands for some day of the month, a year-only      *)
(* string for some day of the year: a is at least as recent as b when no  *)
(* day a can stand for is before a day b can stand for.                   *)
AcceptedDate(ds) ==
    \/ ds.fmt \in {"cn_ymd", "dash", "slash"} /\ ValidDate(ds.y, ds.m, ds.d)
    \/ ds.fmt = "cn_ym" /\ ValidDate(ds.y, ds.m, 1)
    \/ ds.fmt = "year" /\ ds.y >= 1

EarliestDay(ds) ==
    IF ds.fmt = "year" THEN <<ds.y, 1, 1>>
    ELSE IF ds.fmt = "cn_ym" THEN <<ds.y, ds.m, 1>>
    ELSE <<ds.y, ds.m, ds.d>>

LatestDay(ds) ==
    IF ds.fmt = "year" THEN <<ds.y, 12, 31>>
    ELSE IF ds.fmt = "cn_ym" THEN <<ds.y, ds.m, DaysInMonth(ds.y, ds.m)>>
    ELSE <<ds.y, ds.m, ds.d>>

NotBefore(x, y) ==
    \/ x[1] > y[1]
    \/ x[1] = y[1] /\ x[2] > y[2]
    \/ x[1] = y[1] /\ x[2] = y[2] /\ x[3] >= y[3]

AtLeastAsRecent(da, db) == NotBefore(EarliestDay(da), LatestDay(db))

C10_RecencyMonotone ==
    (/\ fn.op = "recency"
     /\ AcceptedDate(fn.a.date) /\ AcceptedDate(fn.b.date)
     /\ AtLeastAsRecent(fn.a.date, fn.b.date))
        => fn.ra >= fn.rb

C10_Witness ==
    /\ fn.op = "recency"
    /\ fn.a.date.fmt = "year" /\ fn.b.date.fmt = "cn_ymd"
    /\ AcceptedDate(fn.a.date) /\ AcceptedDate(fn.b.date)
    /\ AtLeastAsRecent(fn.a.date, fn.b.date)
    /\ fn.ra > fn.rb

----------------------------------------------------------------------------
(* C11: the list rank returns is sorted by final score in descending      *)
(* order: of two adjacent entries, backfilled ones included, the earlier  *)
(* has the greater or equal final score.                                  *)
C11_ResultSortedDescending ==
    Returned =>
        \A i \in 1..(Len(result) - 1) : result[i].final >= result[i + 1].final

(* C12: every entry of the returned list, backfilled or not, carries a    *)
(* score breakdown with its final score and the sub-scores authority,     *)
(* relevance and recency.                                                 *)
C12_EveryEntryHasBreakdown ==
    Returned =>
        \A i \in 1..Len(result) :
            {"final", "authority", "relevance", "recency"} \subseteq result[i].keys

(* C13: lexical scoring degrades gracefully: when the BM25 library is not *)
(* installed, or the index cannot be built over the corpus (every         *)
(* candidate has an empty title and snippet), every candidate's lexical   *)
(* score is 0 and rank goes on to its result.                             *)
LexicalUnavailable == ~has_bm25 \/ bm25_index_fails(corpus_docs)

C13_LexicalDegradesGracefully ==
    (pc \notin {"idle", "called"} /\ policies # <<>> /\ LexicalUnavailable) =>
        /\ pc # "raised" \/ error # "ZeroDivisionError"
        /\ scored # <<>>
        /\ \A i \in 1..Len(scored) : scored[i].bm25_score = 0

(* C16: every derived score of a candidate, and in particular the final   *)
(* score reported in the result of rank, lies in [0, 1], whatever the     *)
(* input, the title bonus and the verifier's labels.                      *)
InUnit(x) == 0 <= x /\ x <= Scale

----------------------------------------------------------------------------
(* C14: funnel bound: the returned list never has more than 15 entries,   *)
(* and every entry, backfilled ones included, is one of the 15 candidates *)
(* with the highest blended score 0.7 * relevance + 0.3 * recency: no     *)
(* candidate the funnel cut has a higher blended score than one it kept,  *)
(* and none appears in the result.                                        *)
FunnelPositions == {funnel[i].pos : i \in 1..Len(funnel)}

C14_FunnelBound ==
    Returned =>
        /\ Len(result) <= 15
        /\ Len(funnel) <= 15
        /\ \A i \in 1..Len(result) : result[i].pos \in FunnelPositions
        /\ \A j \in 1..Len(scored) :
              scored[j].pos \notin FunnelPositions =>
                  \A k \in 1..Len(funnel) :
                      stage1_score(scored[j]) <= funnel[k].final_score

C14_Witness ==
    /\ Returned
    /\ Len(scored) > 15
    /\ Len(result) = 15
    /\ \E j \in 1..Len(scored) : scored[j].pos \notin FunnelPositions

(* C15: for a non-empty input rank sends exactly one request to the       *)
(* verifier, after the funnel truncation, and that request covers every   *)
(* candidate the funnel kept and no other.                                *)
C15_OneRequestCoversFunnel ==
    /\ requests # <<>> =>
          /\ pc \in {"verified", "done"}
          /\ Len(requests) = 1
          /\ Range(requests[1]) = FunnelPositions
    /\ (Returned /\ policies # <<>>) => Len(requests) = 1

(* C17: the weights of the ranker determine how the sub-scores are        *)
(* combined into the final score: where neither the title bonus nor a     *)
(* verifier label comes in, the final score reported for a candidate is   *)
(* the sum of its authority, bm25, semantic and recency scores, each      *)
(* weighted by self.weights (so that rankers built with different weights *)
(* give different final scores).                                          *)
WeightedSum(sp) ==
    (weights.authority * sp.authority_score + weights.bm25 * sp.bm25_score
     + weights.semantic * sp.semantic_score + weights.recency * sp.recency_score)
    \div Scale

C17_WeightsDetermineFinal ==
    (Returned /\ VerifierFailed) =>
        \A i \in 1..Len(result) :
            title_bonus(policies[result[i].pos].title, query) = 0 =>
                result[i].final = Round3(WeightedSum(CandidateOf(result[i])))

(* C18: given 20 candidates with unique links that are all at or below    *)
(* the final-score floor 0.05, rank returns exactly 5 entries, each       *)
(* marked as backfill. As claimed, their final scores are ascending.      *)
Fused(sp) ==
    stage2_score([sp EXCEPT !.final_score = stage1_score(sp)],
                 title_bonus(policy_of(sp).title, query))

TwentyBelowFloor ==
    /\ Returned
    /\ Len(policies) = 20
    /\ UniqueByLink(policies)
    /\ \A i \in 1..Len(scored) : Fused(scored[i]) <= VetoFloor
    /\ \A i \in 1..Len(verified) : verified[i].final_score <= VetoFloor

C18_FiveBackfilledAscending ==
    TwentyBelowFloor =>
        /\ Len(result) = 5
        /\ \A i \in 1..Len(result) : IsBackfill(result[i])
        /\ \A i \in 1..(Len(result) - 1) : result[i].final <= result[i + 1].final

(* C18 as amended: the five backfilled entries come with descending       *)
(* final scores.                                                          *)
C18_FiveBackfilledDescending ==
    TwentyBelowFloor =>
        /\ Len(result) = 5
        /\ \A i \in 1..Len(result) : IsBackfill(result[i])
        /\ \A i \in 1..(Len(result) - 1) : result[i].final >= result[i + 1].final

C18_Witness ==
    /\ TwentyBelowFloor
    /\ Len(result) = 5
    /\ IsBackfill(result[1])
    /\ result[1].final > result[5].final

----------------------------------------------------------------------------
(* core/ranker.py: PolicyRanker.sort_policies                             *)

MaxSortLen == 3

(* A policy dictionary as sort_policies reads it: the query words that    *)
(* occur in the lower-cased title and snippet, the levels of              *)
(* AUTHORITY_DICT of which a keyword occurs in source + " " + link, and   *)
(* the date string.                                                       *)
SortPolicy(title_words, snippet_words, levels, date) ==
    [title_words |-> title_words, snippet_words |-> snippet_words,
     levels |-> levels, date |-> date]

(* Lines 25-40: the first level, in the order of the dictionary, with a   *)
(* keyword in the text; 8 when there is none.                             *)
get_authority_level(p) ==
    IF p.levels = {} THEN 8
    ELSE CHOOSE l \in p.levels : \A k \in p.levels : l <= k

(* Lines 42-61: 10 for each word of the query in the title, 2 for each in *)
(* the snippet; words is query.lower().split().                           *)
RECURSIVE get_relevance_score(_, _)
get_relevance_score(p, words) ==
    IF words = <<>> THEN 0
    ELSE (IF Head(words) \in p.title_words THEN 10 ELSE 0)
         + (IF Head(words) \in p.snippet_words THEN 2 ELSE 0)
         + get_relevance_score(p, Tail(words))

(* The characters of a date string, as code points: ISO and slash dates   *)
(* are written with two-digit months and days ("2024-06-01"), dates with  *)
(* nian, yue, ri (U+5E74, U+6708, U+65E5) without leading zeros, and      *)
(* "text" is "3 days ago".                                                *)
Digit(n) == 48 + n

Pad2(n) == <<Digit(n \div 10), Digit(n % 10)>>

Num(n) == IF n < 10 THEN <<Digit(n)>> ELSE Pad2(n)

Year4(y) ==
    <<Digit(y \div 1000), Digit((y \div 100) % 10), Digit((y \div 10) % 10), Digit(y % 10)>>

date_text(ds) ==
    CASE ds.fmt = "dash" -> Year4(ds.y) \o <<45>> \o Pad2(ds.m) \o <<45>> \o Pad2(ds.d)
      [] ds.fmt = "slash" -> Year4(ds.y) \o <<47>> \o Pad2(ds.m) \o <<47>> \o Pad2(ds.d)
      [] ds.fmt = "cn_ymd" ->
            Year4(ds.y) \o <<24180>> \o Num(ds.m) \o <<26376>> \o Num(ds.d) \o <<26085>>
      [] ds.fmt = "cn_ym" -> Year4(ds.y) \o <<24180>> \o Num(ds.m) \o <<26376>>
      [] ds.fmt = "year" -> Year4(ds.y)
      [] ds.fmt = "text" -> <<51, 32, 100, 97, 121, 115, 32, 97, 103, 111>>
      [] OTHER -> <<>>

(* Lines 83-86: a missing or empty date sorts as "1970-01-01". *)
sort_date(p) ==
    IF p.date.fmt \in {"absent", "empty"}
    THEN date_text(DateStr("dash", 1970, 1, 1))
    ELSE date_text(p.date)

(* Python's order of two strings: by the first code point that differs,   *)
(* a proper prefix first.                                                 *)
StrLess(a, b) ==
    \E k \in 0..Min2(Len(a), Len(b)) :
        /\ \A i \in 1..k : a[i] = b[i]
        /\ IF k = Len(a) THEN k < Len(b)
           ELSE k < Len(b) /\ a[k + 1] < b[k + 1]

(* Lines 71-86: the three keys written into each dictionary. *)
annotate(p, id, words) ==
    [id |-> id, policy |-> p,
     relevance_score |-> get_relevance_score(p, words),
     authority_level |-> get_authority_level(p),
     sort_date |-> sort_date(p)]

(* Whether list.sort on the key puts x strictly before y. *)
sorts_before(x, y, key) ==
    CASE key = "_sort_date" -> StrLess(y.sort_date, x.sort_date)
      [] key = "authority_level" -> x.authority_level < y.authority_level
      [] OTHER -> x.relevance_score > y.relevance_score

(* list.sort is stable: x, the last element, goes before the first        *)
(* element of the sorted rest that it sorts strictly before.              *)
insert_by(s, x, key) ==
    LET later == {i \in 1..Len(s) : sorts_before(x, s[i], key)}
        k == IF later = {} THEN Len(s) + 1
             ELSE CHOOSE i \in later : \A j \in later : i <= j
    IN  SubSeq(s, 1, k - 1) \o <<x>> \o SubSeq(s, k, Len(s))

RECURSIVE sort_by(_, _)
sort_by(s, key) ==
    IF s = <<>> THEN <<>>
    ELSE insert_by(sort_by(SubSeq(s, 1, Len(s) - 1), key), s[Len(s)], key)

(* Lines 63-99: the list is sorted in place three times, by date          *)
(* descending, by level ascending, by relevance descending.               *)
sort_policies(ps, words) ==
    sort_by(sort_by(sort_by([i \in 1..Len(ps) |-> annotate(ps[i], i, words)],
                            "_sort_date"),
                    "authority_level"),
            "relevance_score")

(* The dictionaries and queries sort_policies is explored on: w1 and w2   *)
(* are query words.                                                       *)
SortDates ==
    {DateStr("absent", 0, 0, 0), DateStr("empty", 0, 0, 0),
     DateStr("dash", 2024, 3, 1), DateStr("dash", 2024, 2, 1),
     DateStr("dash", 1969, 12, 31),
     DateStr("cn_ymd", 2024, 12, 1), DateStr("cn_ymd", 2024, 5, 1),
     DateStr("slash", 2024, 1, 1)}

SortPolicies ==
    {SortPolicy({}, {}, {2}, d) : d \in SortDates}
    \cup {SortPolicy({}, {}, {1, 7}, DateStr("dash", 2024, 2, 1)),
          SortPolicy({}, {}, {}, DateStr("cn_ymd", 2024, 12, 1))}
    \cup {SortPolicy(tw, sw, {2}, DateStr("dash", 2024, 3, 1)) :
            tw \in {{}, {"w1"}}, sw \in {{"w1"}, {"w1", "w2"}}}

SortQueries == {<<>>, <<"w1">>, <<"w1", "w2">>}

ApplySort(ps, words) ==
    /\ fn.op = "none"
    /\ fn' = [op |-> "sort_policies", a |-> ps, b |-> words,
              ra |-> sort_policies(ps, words), rb |-> 0]
    /\ UNCHANGED <<session_state, pc, policies, query, official, has_bm25, now, scored, funnel,
                   reranked, reply, verified, result, error, weights, requests,
                   calls, heap>>

NextSort ==
    /\ fn.op = "none"
    /\ \E ps \in SeqsUpTo(SortPolicies, MaxSortLen), words \in SortQueries :
          ApplySort(ps, words)

SpecSort == Init /\ [][NextSort]_vars

----------------------------------------------------------------------------
(* C19: sort_policies returns the same policies ordered by relevance      *)
(* score descending, ties broken by authority level ascending, remaining  *)
(* ties by date descending (newer first, a missing date counting as       *)
(* 1970-01-01); with an empty query every relevance score is 0.           *)
PublishedDay(p) ==
    IF p.date.fmt \in {"absent", "empty"} THEN DayNumber(1970, 1, 1)
    ELSE DayNumber(p.date.y, p.date.m, p.date.d)

InSortOrder(x, y) ==
    \/ x.relevance_score > y.relevance_score
    \/ /\ x.relevance_score = y.relevance_score
       /\ \/ x.authority_level < y.authority_level
          \/ /\ x.authority_level = y.authority_level
             /\ PublishedDay(x.policy) >= PublishedDay(y.policy)

C19_SortPoliciesOrder ==
    fn.op = "sort_policies" =>
        /\ Len(fn.ra) = Len(fn.a)
        /\ {fn.ra[i].id : i \in 1..Len(fn.ra)} = 1..Len(fn.a)
        /\ \A i \in 1..Len(fn.ra) :
              /\ fn.ra[i].policy = fn.a[fn.ra[i].id]
              /\ fn.b = <<>> => fn.ra[i].relevance_score = 0
        /\ \A i \in 1..(Len(fn.ra) - 1) : InSortOrder(fn.ra[i], fn.ra[i + 1])

----------------------------------------------------------------------------
(* Two rank calls on one ranker instance, their steps interleaved. The    *)
(* caller's objects are in heap: the candidate dictionaries, and the      *)
(* lists of them (a list holds references to dictionaries) that the calls *)
(* are handed. Each call has its own local variables in calls[c]:         *)
(* policies is what line 129 read from the list, and a ScoredPolicy       *)
(* refers to its dictionary by the position in it.                        *)

(* A dictionary of the caller; scores is the "_scores" key, when written. *)
Dict(p) == [policy |-> p, has_scores |-> FALSE, scores |-> <<>>]

(* What the caller built: four or five dictionaries, and lists over them  *)
(* that share dictionaries.                                               *)
CandidateHeaps ==
    {[dicts |-> <<Dict(Sample(1, 1)), Dict(Sample(2, 2)), Dict(Sample(4, 3)),
                  Dict(Sample(3, 4))>>,
      lists |-> <<<<1, 2, 3, 4>>, <<3, 1>>, <<4>>, <<>>>>],
     [dicts |-> <<Dict(Sample(1, 1)), Dict(Sample(2, 2)), Dict(Sample(6, 3)),
                  Dict(Sample(7, 4)), Dict(Sample(5, 5))>>,
      lists |-> <<<<4, 3, 2, 1>>, <<2, 5, 1>>, <<3, 4>>>>]}

TwoQueries == {Query(TRUE, TRUE, {"t1"}), Query(FALSE, FALSE, {})}

TwoReplies ==
    {Reply("raise", <<>>), Reply("labels", <<"B">>), Reply("labels", <<"C", "A">>)}

(* The dictionaries a list of references stands for. *)
Deref(refs) == [i \in 1..Len(refs) |-> heap.dicts[refs[i]].policy]

(* Mutant: the entry is the dictionary itself, not a copy, so "_scores"   *)
(* is written into the caller's dictionary.                               *)
scores_written_in_place(dicts, refs, res) ==
    [k \in 1..Len(dicts) |->
        IF \E i \in 1..Len(res) : refs[res[i].pos] = k
        THEN LET i == CHOOSE j \in 1..Len(res) :
                        /\ refs[res[j].pos] = k
                        /\ \A h \in 1..Len(res) : refs[res[h].pos] = k => h <= j
             IN  [dicts[k] EXCEPT !.has_scores = TRUE,
                                  !.scores = <<res[i].authority, res[i].final>>]
        ELSE dicts[k]]

(* Lines 191-192 and 206-207: policy = sp.policy.copy() and "_scores" is  *)
(* set on the copy; the dictionaries of the caller stay as they are.      *)
scores_written(dicts, refs, res) == dicts

(* rank as a whole, lines 115-215: what a call returns or raises.         *)
rank_outcome(ps, q, bm, today, rep) ==
    IF ps = <<>> THEN [result |-> <<>>, error |-> ""]
    ELSE IF bm /\ bm25_index_fails(ps)
         THEN [result |-> <<>>, error |-> "ZeroDivisionError"]
    ELSE LET cands == rerank_of(funnel_of(score_all(ps, q, FALSE, bm, today)), ps, q)
         IN  IF data_list_fails(Take(cands, VerifyTop), ps)
             THEN [result |-> <<>>, error |-> "TypeError"]
             ELSE [result |-> assemble(verify_of(cands, rep), ps), error |-> ""]

(* The caller builds its candidate dictionaries and lists. *)
LoadCandidates(h) ==
    /\ heap = EmptyHeap
    /\ heap' = h
    /\ UNCHANGED <<session_state, pc, policies, query, official, has_bm25, now, scored, funnel,
                   reranked, reply, verified, result, error, fn, weights,
                   requests, calls>>

(* Call c starts: ranker.rank(lists[lst], q). *)
StartCall(c, lst, q) ==
    /\ heap # EmptyHeap
    /\ calls[c].pc = "idle"
    /\ lst \in 1..Len(heap.lists)
    /\ calls' = [calls EXCEPT ![c] = [@ EXCEPT !.pc = "called", !.lst = lst, !.query = q]]
    /\ UNCHANGED <<session_state, pc, policies, query, official, has_bm25, now, scored, funnel,
                   reranked, reply, verified, result, error, fn, weights,
                   requests, heap>>

(* Lines 122-123. *)
ReturnEmptyCall(c) ==
    /\ calls[c].pc = "called"
    /\ heap.lists[calls[c].lst] = <<>>
    /\ calls' = [calls EXCEPT ![c] = [@ EXCEPT !.pc = "done", !.result = <<>>]]
    /\ UNCHANGED <<session_state, pc, policies, query, official, has_bm25, now, scored, funnel,
                   reranked, reply, verified, result, error, fn, weights,
                   requests, heap>>

(* Lines 125-145: the list is read, the scorers run (or line 304 raises). *)
ScoreCall(c) ==
    /\ calls[c].pc = "called"
    /\ heap.lists[calls[c].lst] # <<>>
    /\ LET refs == heap.lists[calls[c].lst]
           ps == Deref(refs)
       IN  calls' = [calls EXCEPT ![c] =
              IF has_bm25 /\ bm25_index_fails(ps)
              THEN [@ EXCEPT !.pc = "raised", !.policies = refs,
                             !.error = "ZeroDivisionError"]
              ELSE [@ EXCEPT !.pc = "scored", !.policies = refs,
                             !.scored = score_all(ps, calls[c].query, FALSE, has_bm25, now)]]
    /\ UNCHANGED <<session_state, pc, policies, query, official, has_bm25, now, scored, funnel,
                   reranked, reply, verified, result, error, fn, weights,
                   requests, heap>>

(* Lines 149-156. *)
FunnelCall(c) ==
    /\ calls[c].pc = "scored"
    /\ calls' = [calls EXCEPT ![c] =
                    [@ EXCEPT !.pc = "funnel", !.funnel = funnel_of(calls[c].scored)]]
    /\ UNCHANGED <<session_state, pc, policies, query, official, has_bm25, now, scored, funnel,
                   reranked, reply, verified, result, error, fn, weights,
                   requests, heap>>

(* Lines 162-173: the titles are read from the dictionaries. *)
RerankCall(c) ==
    /\ calls[c].pc = "funnel"
    /\ calls' = [calls EXCEPT ![c] =
                    [@ EXCEPT !.pc = "reranked",
                              !.reranked = rerank_of(calls[c].funnel,
                                                     Deref(calls[c].policies),
                                                     calls[c].query)]]
    /\ UNCHANGED <<session_state, pc, policies, query, official, has_bm25, now, scored, funnel,
                   reranked, reply, verified, result, error, fn, weights,
                   requests, heap>>

(* Lines 176-178: titles and snippets are read for the prompt (line 418   *)
(* may raise), and the verifier answers rep.                              *)
VerifyCall(c, rep) ==
    /\ calls[c].pc = "reranked"
    /\ calls' = [calls EXCEPT ![c] =
          IF data_list_fails(Take(calls[c].reranked, VerifyTop), Deref(calls[c].policies))
          THEN [@ EXCEPT !.pc = "raised", !.error = "TypeError"]
          ELSE [@ EXCEPT !.pc = "verified", !.reply = rep,
                         !.verified = verify_of(calls[c].reranked, rep)]]
    /\ UNCHANGED <<session_state, pc, policies, query, official, has_bm25, now, scored, funnel,
                   reranked, reply, verified, result, error, fn, weights,
                   requests, heap>>

(* Lines 181-215: links are read, the entries are built. *)
AssembleCall(c) ==
    /\ calls[c].pc = "verified"
    /\ LET res == assemble(calls[c].verified, Deref(calls[c].policies))
       IN  /\ calls' = [calls EXCEPT ![c] = [@ EXCEPT !.pc = "done", !.result = res]]
           /\ heap' = [heap EXCEPT !.dicts = scores_written(heap.dicts, calls[c].policies, res)]
    /\ UNCHANGED <<session_state, pc, policies, query, official, has_bm25, now, scored, funnel,
                   reranked, reply, verified, result, error, fn, weights,
                   requests>>

NextTwoCalls ==
    \/ /\ heap = EmptyHeap
       /\ \E h \in CandidateHeaps : LoadCandidates(h)
    \/ \E c \in CallIds, lst \in 1..4, q \in TwoQueries : StartCall(c, lst, q)
    \/ \E c \in CallIds : ReturnEmptyCall(c)
    \/ \E c \in CallIds : ScoreCall(c)
    \/ \E c \in CallIds : FunnelCall(c)
    \/ \E c \in CallIds : RerankCall(c)
    \/ \E c \in CallIds, rep \in TwoReplies : VerifyCall(c, rep)
    \/ \E c \in CallIds : AssembleCall(c)

SpecTwoCalls == Init /\ [][NextTwoCalls]_vars

----------------------------------------------------------------------------
(* C20: two rank calls interleaved in any order on the one ranker         *)
(* instance, also over the same dictionaries and the same list, each      *)
(* return (or raise) exactly what they would when run alone; the ranker,  *)
(* the lists and the candidate dictionaries are left as they were.        *)
Finished(c) == calls[c].pc \in {"done", "raised"}

C20_CallsIndependent ==
    /\ \A c \in CallIds :
          Finished(c) =>
              [result |-> calls[c].result, error |-> calls[c].error]
                  = rank_outcome(Deref(heap.lists[calls[c].lst]), calls[c].query,
                                 has_bm25, now, calls[c].reply)
    /\ heap \in CandidateHeaps \cup {EmptyHeap}
    /\ weights = DefaultWeights
    /\ has_bm25

C20_Witness ==
    /\ calls[1].pc = "done"
    /\ calls[2].pc = "done"
    /\ calls[1].lst = calls[2].lst
    /\ calls[1].query # calls[2].query
    /\ calls[1].reply # calls[2].reply
    /\ calls[1].result # <<>>
    /\ calls[1].result # calls[2].result

----------------------------------------------------------------------------
(* C21: noise veto rule of _calc_authority: the score is 0 exactly when   *)
(* title + snippet holds a critical noise keyword, or holds any noise     *)
(* keyword while the link is on no .gov.cn / .org.cn domain; on such a    *)
(* domain a secondary keyword alone never vetoes, and a text with both a  *)
(* secondary and a critical keyword is vetoed whatever their order in the *)
(* keyword list.                                                          *)
TextNoise(policy) == policy.title.noise \cup policy.snippet.noise

VetoExpected(policy) ==
    \/ TextNoise(policy) \cap {"xitong", "denglu", "baokao", "kaoshi"} # {}
    \/ TextNoise(policy) # {} /\ policy.link.dom \notin {"gov", "org"}

C21_NoiseVetoRule ==
    fn.op = "authority" =>
        /\ fn.ra = 0 <=> VetoExpected(fn.a)
        /\ fn.rb = 0 <=> VetoExpected(fn.b)

C21_Witness ==
    /\ fn.op = "authority"
    /\ TextNoise(fn.a) = {"zhuce", "kaoshi"} /\ fn.a.link.dom = "gov" /\ fn.ra = 0
    /\ fn.b.link.dom = "org" /\ fn.rb = 0

(* C22: disclosure-path override: a candidate that is not noise-vetoed    *)
(* and whose link holds a disclosure path pattern gets authority score    *)
(* exactly 0.1, whatever its domain class and source tier, also when the  *)
(* link holds a regulation path pattern too.                              *)
C22_DisclosurePathOverride ==
    (fn.op = "authority" /\ fn.a.link.disc /\ ~VetoExpected(fn.a)) => fn.ra = 1000

(* C25: keyword-tier authority: where no domain class applies, a source   *)
(* matching tier k scores 1.0 - (k - 1) * step, and never less than the   *)
(* 0.3 of a source that matches no tier.                                  *)
NoDomainClass(policy) == policy.link.dom \in {"news", "other"}

LowestTier(policy) == CHOOSE l \in policy.source : \A k \in policy.source : l <= k

C25_KeywordTierAboveFloor ==
    (/\ fn.op = "authority"
     /\ NoDomainClass(fn.a) /\ ~VetoExpected(fn.a)
     /\ fn.a.source # {}) =>
        /\ fn.ra = 10000 - (LowestTier(fn.a) - 1) * 1250
        /\ fn.ra >= 3000

----------------------------------------------------------------------------
(* The verifier's labels in the properties' words. *)

(* The label the reply holds for candidate i of the list before the       *)
(* verification, "" when it holds none for it.                            *)
LabelOf(i) ==
    IF reply.kind = "labels" /\ i <= Len(reply.labels) /\ i <= 8
    THEN reply.labels[i] ELSE ""

(* Candidate i of the list before the verification, as it is after it. *)
AfterVerify(i) == CHOOSE sp \in Range(verified) : sp.pos = reranked[i].pos

(* The place candidate i of the list before the verification has after it. *)
PlaceAfter(i) == CHOOSE k \in 1..Len(verified) : verified[k].pos = reranked[i].pos

(* C23: a candidate with authority score 0 that the verifier labels a     *)
(* policy original (A) and whose final score is above the floor 0.05 is   *)
(* in the returned list as a regular entry, not a backfilled one (lists   *)
(* of at most 5 candidates, where the low-authority cut cannot act).      *)
C23_OriginalLabelLiftsVeto ==
    (Returned /\ Len(verified) <= 5) =>
        \A i \in 1..Len(reranked) :
            (/\ LabelOf(i) = "A"
             /\ reranked[i].authority_score = 0
             /\ AfterVerify(i).final_score > 500) =>
                \E k \in 1..Len(result) :
                    result[k].pos = reranked[i].pos /\ ~IsBackfill(result[k])

C27_OutOfRangeLabelsSkipped ==
    (reply.kind = "labels" /\ pc = "verified") =>
        /\ error = ""
        /\ Len(verified) = Len(reranked)
        /\ \A i \in 1..Len(reranked) :
               LET before == reranked[i]
                   after == AfterVerify(i)
                   label == LabelOf(i)
               IN  CASE label = "B" -> after.authority_score = 0 /\ after.final_score = 0
                     [] label = "C" -> after.final_score = (3 * before.final_score) \div 10
                     [] label = "A" -> after.final_score
                                           = Min2(10000, (12 * before.final_score) \div 10)
                     [] OTHER -> after = before

C27_Witness ==
    /\ pc = "verified"
    /\ reply.kind = "labels"
    /\ Len(reranked) = 1
    /\ Len(reply.labels) = 2
    /\ reply.labels[1] = "C"
    /\ reranked[1].final_score > 500
    /\ verified[1].final_score = (3 * reranked[1].final_score) \div 10

----------------------------------------------------------------------------
(* C28: _calc_recency maps the age in days of a parsed date to the steps  *)
(* <= 30: 1.0, <= 90: 0.9, <= 180: 0.8, <= 365: 0.6, <= 730: 0.4, older:  *)
(* 0.2; a string that matches no accepted format and holds a 4-digit year *)
(* (a year of the calendar, 0001 or later) is dated June 15 of that year; *)
(* an empty or absent date, or one without date information, gives 0.3;   *)
(* and every date string gets one of these scores, none an exception.     *)
StepOfAge(age) ==
    CASE age <= 30 -> 10000
      [] age > 30 /\ age <= 90 -> 9000
      [] age > 90 /\ age <= 180 -> 8000
      [] age > 180 /\ age <= 365 -> 6000
      [] age > 365 /\ age <= 730 -> 4000
      [] age > 730 -> 2000

MatchesFormat(ds) ==
    \/ ds.fmt \in {"cn_ymd", "dash", "slash"} /\ ValidDate(ds.y, ds.m, ds.d)
    \/ ds.fmt = "cn_ym" /\ ValidDate(ds.y, ds.m, 1)

HoldsYear(ds) == ds.fmt \in {"year", "cn_ymd", "dash", "slash", "cn_ym"}

AgeInDays(y, m, d) == DayNumber(now.y, now.m, now.d) - DayNumber(y, m, d)

RecencyExpected(ds) ==
    IF MatchesFormat(ds)
    THEN StepOfAge(AgeInDays(ds.y, ds.m, IF ds.fmt = "cn_ym" THEN 1 ELSE ds.d))
    ELSE IF HoldsYear(ds) /\ ds.y >= 1 THEN StepOfAge(AgeInDays(ds.y, 6, 15))
    ELSE 3000

C28_RecencyStepFunction ==
    fn.op = "recency" =>
        /\ fn.ra = RecencyExpected(fn.a.date)
        /\ fn.rb = RecencyExpected(fn.b.date)

C28_Witness ==
    /\ fn.op = "recency"
    /\ now = [y |-> 2025, m |-> 6, d |-> 30]
    /\ fn.a.date = [fmt |-> "dash", y |-> 2025, m |-> 13, d |-> 1]
    /\ fn.ra = 10000
    /\ fn.b.date.fmt = "text"
    /\ fn.rb = 3000

----------------------------------------------------------------------------
(* core/search.py: PolicySearcher.search *)

(* The most results one response of the search API holds here. *)
MaxHits == 2

(* One entry of "organic_results". link = "": the entry has no link, or   *)
(* an empty one. position = 0: the entry has no "position" key. fields    *)
(* stands for its title, snippet, date and source together.               *)
Hit(link, position, fields) == [link |-> link, position |-> position, fields |-> fields]

(* The answer to one query. ok = FALSE: requests.get, raise_for_status or *)
(* response.json raised, and the handler of line 91 took over.            *)
Response(type, ok, raw_results) == [type |-> type, ok |-> ok, raw_results |-> raw_results]

(* Lines 82-90: the dictionary stored for a link seen for the first time. *)
candidate_dict(item, rank, type) ==
    [link |-> item.link, fields |-> item.fields, google_rank |-> rank, search_type |-> type]

(* Mutant: a link seen again takes the later rank whatever it is. *)
add_result_last_rank(all_candidates, item, idx, type) ==
    LET rank == IF item.position = 0 THEN idx + 1 ELSE item.position
        seen == {k \in 1..Len(all_candidates) : all_candidates[k].link = item.link}
    IN  IF item.link = "" THEN all_candidates
        ELSE IF seen # {}
        THEN [k \in 1..Len(all_candidates) |->
                IF k \in seen
                THEN [all_candidates[k] EXCEPT !.google_rank = rank]
                ELSE all_candidates[k]]
        ELSE Append(all_candidates, candidate_dict(item, rank, type))

(* Lines 66-90, one pass of the loop over raw_results: idx counts from 0. *)
(* all_candidates is the dictionary in its insertion order.               *)
add_result(all_candidates, item, idx, type) ==
    LET rank == IF item.position = 0 THEN idx + 1 ELSE item.position
        seen == {k \in 1..Len(all_candidates) : all_candidates[k].link = item.link}
    IN  IF item.link = "" THEN all_candidates
        ELSE IF seen # {}
        THEN [k \in 1..Len(all_candidates) |->
                IF k \in seen /\ rank < all_candidates[k].google_rank
                THEN [all_candidates[k] EXCEPT !.google_rank = rank]
                ELSE all_candidates[k]]
        ELSE Append(all_candidates, candidate_dict(item, rank, type))

(* Lines 66-90 from entry idx + 1 of raw_results on. *)
RECURSIVE add_results(_, _, _, _)
add_results(all_candidates, raw_results, idx, type) ==
    IF idx >= Len(raw_results) THEN all_candidates
    ELSE add_results(add_result(all_candidates, raw_results[idx + 1], idx, type),
                     raw_results, idx + 1, type)

(* Lines 31-43: the raw query runs first, when one is given. *)
queries_to_run(raw, refined) == (IF raw.type = "raw" THEN <<raw>> ELSE <<>>) \o <<refined>>

(* Lines 45-98. *)
RECURSIVE run_queries(_, _, _)
run_queries(all_candidates, responses, i) ==
    IF i > Len(responses) THEN all_candidates
    ELSE IF ~responses[i].ok THEN run_queries(all_candidates, responses, i + 1)
    ELSE run_queries(add_results(all_candidates, responses[i].raw_results, 0, responses[i].type),
                     responses, i + 1)

search(raw, refined) == run_queries(<<>>, queries_to_run(raw, refined), 1)

(* The responses explored. *)
Hits ==
    {Hit("", 0, "f1"), Hit("u2", 0, "f1")}
    \cup {Hit("u1", p, f) : p \in {0, 1}, f \in {"f1", "f2"}}

Responses(type) ==
    {Response(type, FALSE, <<>>)}
    \cup {Response(type, TRUE, hs) : hs \in SeqsUpTo(Hits, MaxHits)}

(* raw_query is None: no raw query runs. *)
NoRawQuery == Response("none", FALSE, <<>>)

ApplySearch(raw, refined) ==
    /\ fn.op = "none"
    /\ fn' = [op |-> "search", responses |-> queries_to_run(raw, refined),
              unique_candidates |-> search(raw, refined)]
    /\ UNCHANGED <<session_state, weights, requests, calls, heap, pc, policies, query, official, has_bm25, now,
                   scored, funnel, reranked, reply, verified, result, error>>

NextSearch ==
    /\ fn.op = "none"
    /\ \E raw \in Responses("raw") \cup {NoRawQuery}, refined \in Responses("refined") :
          ApplySearch(raw, refined)

SpecSearch == Init /\ [][NextSearch]_vars

(* The occurrences of a link in the results received: <<i, k>> is entry k *)
(* of the answer to query i.                                              *)
Occurrences(link) ==
    {o \in (1..Len(fn.responses)) \X (1..MaxHits + 1) :
        /\ fn.responses[o[1]].ok
        /\ o[2] <= Len(fn.responses[o[1]].raw_results)
        /\ fn.responses[o[1]].raw_results[o[2]].link = link}

OccurrenceHit(o) == fn.responses[o[1]].raw_results[o[2]]

(* The rank of an occurrence: its "position", else its place counted from 1. *)
OccurrenceRank(o) == IF OccurrenceHit(o).position = 0 THEN o[2] ELSE OccurrenceHit(o).position

FirstOccurrence(link) ==
    CHOOSE o \in Occurrences(link) :
        \A x \in Occurrences(link) : o[1] < x[1] \/ (o[1] = x[1] /\ o[2] <= x[2])

(* C29: search returns at most one candidate per link; a link that occurs *)
(* in several results, of one query or of both, is returned with the      *)
(* fields of its first occurrence and, as google_rank, the smallest rank  *)
(* of all its occurrences; results without a link are left out.           *)
C29_SearchUniqueByLink ==
    fn.op = "search" =>
        LET out == fn.unique_candidates
        IN  /\ \A i, j \in 1..Len(out) : i # j => out[i].link # out[j].link
            /\ \A i \in 1..Len(out) :
                   /\ out[i].link # ""
                   /\ Occurrences(out[i].link) # {}
                   /\ out[i].fields = OccurrenceHit(FirstOccurrence(out[i].link)).fields
                   /\ out[i].search_type = fn.responses[FirstOccurrence(out[i].link)[1]].type
                   /\ \A o \in Occurrences(out[i].link) : out[i].google_rank <= OccurrenceRank(o)
                   /\ \E o \in Occurrences(out[i].link) : out[i].google_rank = OccurrenceRank(o)
            /\ \A l \in {"u1", "u2"} :
                   Occurrences(l) # {} => \E i \in 1..Len(out) : out[i].link = l

C29_Witness ==
    /\ fn.op = "search"
    /\ Len(fn.responses) = 2
    /\ Len(fn.unique_candidates) = 1
    /\ Cardinality(Occurrences(fn.unique_candidates[1].link)) = 3
    /\ Occurrences("") # {}
    /\ fn.unique_candidates[1].google_rank < OccurrenceRank(FirstOccurrence(fn.unique_candidates[1].link))
    /\ fn.unique_candidates[1].fields = "f2"

----------------------------------------------------------------------------
(* app.py: the stash pool of the session *)

(* The most policies a result list of the session holds here. *)
MaxShown == 2

(* A policy of a result list. Two searches can return the same link with  *)
(* different dictionaries: version tells them apart.                      *)
SessionPolicy(link, version) == [link |-> link, version |-> version]

SessionPolicies ==
    {SessionPolicy(l, 1) : l \in 1..MaxShown} \cup {SessionPolicy(1, 2)}

(* The lists rank returns on what PolicySearcher.search found: no link    *)
(* twice.                                                                 *)
SessionResults ==
    {rs \in SeqsUpTo(SessionPolicies, MaxShown) :
        \A i, j \in 1..Len(rs) : i # j => rs[i].link # rs[j].link}

(* What a continued search returns here: link 1 anew. *)
ContinuedResults == {<<SessionPolicy(1, 2)>>}

(* select_indices of the parsed intent: no index (None and [] alike), one *)
(* index, or two, equal or not; 0 and MaxShown + 1 name no result.        *)
SelectIndices ==
    {<<>>}
    \cup {<<i>> : i \in 0..(MaxShown + 1)}
    \cup {<<i, j>> : i, j \in 0..(MaxShown + 1)}

(* any(p['link'] == r['link'] for p in st.session_state.policy_cache) *)
is_cached(policy_cache, r) == \E k \in 1..Len(policy_cache) : policy_cache[k].link = r.link

(* The parsed intent, or the button pressed, of a script run. *)
Event(kind, select_indices) == [kind |-> kind, select_indices |-> select_indices]

(* Mutant: the selection stashes without looking at the pool. *)
RECURSIVE stash_selected_unchecked(_, _, _, _)
stash_selected_unchecked(policy_cache, search_results, select_indices, n) ==
    IF n > Len(select_indices) THEN policy_cache
    ELSE LET idx == select_indices[n]
         IN  IF 1 <= idx /\ idx <= Len(search_results)
             THEN stash_selected_unchecked(Append(policy_cache, search_results[idx]),
                                           search_results, select_indices, n + 1)
             ELSE stash_selected_unchecked(policy_cache, search_results, select_indices, n + 1)

(* Lines 433-437 and 472-476, from index n of select_indices on. *)
RECURSIVE stash_selected(_, _, _, _)
stash_selected(policy_cache, search_results, select_indices, n) ==
    IF n > Len(select_indices) THEN policy_cache
    ELSE LET idx == select_indices[n]
         IN  IF 1 <= idx /\ idx <= Len(search_results)
                /\ ~is_cached(policy_cache, search_results[idx])
             THEN stash_selected(Append(policy_cache, search_results[idx]),
                                 search_results, select_indices, n + 1)
             ELSE stash_selected(policy_cache, search_results, select_indices, n + 1)

(* list.pop(i), i counted from 1 here. *)
pop(l, i) == SubSeq(l, 1, i - 1) \o SubSeq(l, i + 1, Len(l))

(* Lines 247-276: the button of result idx is there when the result is    *)
(* not stashed, and the run it starts appends the result.                 *)
StashButton(idx) ==
    /\ idx \in 1..Len(session_state.search_results)
    /\ ~is_cached(session_state.policy_cache, session_state.search_results[idx])
    /\ session_state' = [session_state EXCEPT
            !.policy_cache = Append(@, session_state.search_results[idx]),
            !.event = Event("stash_button", <<>>)]

(* Lines 189-196. *)
RemoveButton(i) ==
    /\ i \in 1..Len(session_state.policy_cache)
    /\ session_state' = [session_state EXCEPT
            !.policy_cache = pop(@, i),
            !.event = Event("remove_button", <<>>)]

(* Lines 204-206: the button is there when the pool is not empty. *)
ClearButton ==
    /\ session_state.policy_cache # <<>>
    /\ session_state' = [session_state EXCEPT
            !.policy_cache = <<>>,
            !.event = Event("clear_button", <<>>)]

(* Lines 358-414: a search, or a result list restored from search_cache. *)
SearchIntent(results) ==
    session_state' = [session_state EXCEPT
            !.search_results = results,
            !.event = Event("SEARCH", <<>>)]

(* Lines 430-466: the results after the run are those of the new search   *)
(* when the intent has a search_query.                                    *)
SelectAndContinue(select_indices, has_query, results) ==
    session_state' = [session_state EXCEPT
            !.policy_cache =
                IF select_indices # <<>> /\ session_state.search_results # <<>>
                THEN stash_selected(@, session_state.search_results, select_indices, 1)
                ELSE @,
            !.search_results = IF has_query THEN results ELSE @,
            !.event = Event("SELECT_AND_CONTINUE", select_indices)]

(* Lines 468-482. *)
SelectOnly(select_indices) ==
    session_state' = [session_state EXCEPT
            !.policy_cache =
                IF select_indices # <<>> /\ session_state.search_results # <<>>
                THEN stash_selected(@, session_state.search_results, select_indices, 1)
                ELSE @,
            !.event = Event("SELECT_ONLY", select_indices)]

(* Lines 505-506. *)
ClearCache ==
    session_state' = [session_state EXCEPT
            !.policy_cache = <<>>,
            !.event = Event("CLEAR_CACHE", <<>>)]

NextSession ==
    /\ \/ \E idx \in 1..MaxShown : StashButton(idx)
       \/ \E i \in 1..MaxShown : RemoveButton(i)
       \/ ClearButton
       \/ \E results \in SessionResults : SearchIntent(results)
       \/ \E select_indices \in SelectIndices, has_query \in BOOLEAN, results \in ContinuedResults :
             SelectAndContinue(select_indices, has_query, results)
       \/ \E select_indices \in SelectIndices : SelectOnly(select_indices)
       \/ ClearCache
    /\ UNCHANGED <<pc, policies, query, official, has_bm25, now, scored, funnel,
                   reranked, reply, verified, result, error, fn, weights, requests,
                   calls, heap>>

SpecSession == Init /\ [][NextSession]_vars

(* The links of a list of policies. *)
LinksOf(l) == {l[k].link : k \in 1..Len(l)}

(* A script run that handled a selection: the pool after it is the pool   *)
(* before it, followed by the selected results whose link it did not      *)
(* hold; an index that names no result of the list shown adds nothing.    *)
SelectionStashesInRangeOnly ==
    session_state'.event.kind \in {"SELECT_ONLY", "SELECT_AND_CONTINUE"} =>
        LET before == session_state.policy_cache
            after == session_state'.policy_cache
            shown == session_state.search_results
            select_indices == session_state'.event.select_indices
            in_range == {select_indices[n] : n \in 1..Len(select_indices)} \cap (1..Len(shown))
        IN  /\ Len(after) >= Len(before)
            /\ SubSeq(after, 1, Len(before)) = before
            /\ LinksOf(after) = LinksOf(before) \cup {shown[idx].link : idx \in in_range}
            /\ in_range = {} => after = before

(* C30: after any sequence of stash operations (button, SELECT_ONLY,      *)
(* SELECT_AND_CONTINUE, with repeated or out-of-range indices), removals, *)
(* clears and new searches, policy_cache holds no two policies with the   *)
(* same link, and an out-of-range selection index changes nothing.        *)
C30_StashPoolUniqueByLink ==
    /\ [](\A i, j \in 1..Len(session_state.policy_cache) :
             i # j => session_state.policy_cache[i].link # session_state.policy_cache[j].link)
    /\ [][SelectionStashesInRangeOnly]_vars

C30_Witness ==
    /\ session_state.event = [kind |-> "SELECT_ONLY", select_indices |-> <<3, 2>>]
    /\ session_state.search_results = <<[link |-> 1, version |-> 1], [link |-> 2, version |-> 1]>>
    /\ session_state.policy_cache = <<[link |-> 1, version |-> 2], [link |-> 2, version |-> 1]>>

----------------------------------------------------------------------------
(* _llm_verify_policy: from the response text to the labels, lines 429-433 *)

(* The most pieces a response text has here. *)
MaxPieces == 3

(* A response text is a sequence of pieces: prose without brackets, a     *)
(* single '[', a single ']', or a well-formed JSON array of labels.       *)
Piece(kind, labels) == [kind |-> kind, labels |-> labels]

Pieces ==
    {Piece(k, <<>>) : k \in {"prose", "open", "close"}}
    \cup {Piece("array", ls) : ls \in {<<"B", "C">>, <<"A">>}}

Texts == SeqsUpTo(Pieces, MaxPieces)

(* The pieces a '[' is in, and those a ']' is in. *)
Opens(text) == {k \in 1..Len(text) : text[k].kind \in {"open", "array"}}

Closes(text) == {k \in 1..Len(text) : text[k].kind \in {"close", "array"}}

SetMin(S) == CHOOSE x \in S : \A y \in S : x <= y

SetMax(S) == CHOOSE x \in S : \A y \in S : x >= y

(* re.search(r'\[.*\]', response, re.S): with re.S the greedy .* runs     *)
(* from the first '[' of the text to its last ']'. <<>>: no match.        *)
search_brackets(text) ==
    IF Opens(text) = {} THEN <<>>
    ELSE LET first == SetMin(Opens(text))
             later == {k \in Closes(text) :
                          k > first \/ (k = first /\ text[k].kind = "array")}
         IN  IF later = {} THEN <<>> ELSE SubSeq(text, first, SetMax(later))

(* Lines 431-433: json.loads gives the labels when the match is one array *)
(* of labels. Any other match either makes json.loads raise (handler of   *)
(* line 446) or is a list none of whose elements is a label: both apply   *)
(* nothing, as a reply json.loads cannot read.                            *)
parse_response(text) ==
    LET match == search_brackets(text)
    IN  IF match = <<>> THEN Reply("nomatch", <<>>)
        ELSE IF Len(match) = 1 /\ match[1].kind = "array"
        THEN Reply("labels", match[1].labels)
        ELSE Reply("badjson", <<>>)

(* The candidates handed to the verifier in this exploration. *)
ParseCandidates ==
    <<ScoredPolicy(1, 9000, 5000, 5000, 6000, 8000),
      ScoredPolicy(2, 3000, 5000, 5000, 6000, 4000)>>

(* _llm_verify_policy on ParseCandidates, the model answering text. *)
ApplyParse(text) ==
    /\ fn.op = "none"
    /\ fn' = [op |-> "parse", text |-> text, labels |-> parse_response(text),
              candidates |-> llm_verify_policy(ParseCandidates, parse_response(text))]
    /\ UNCHANGED <<session_state, weights, requests, calls, heap, pc, policies, query, official,
                   has_bm25, now, scored, funnel, reranked, reply, verified, result, error>>

NextParse ==
    /\ fn.op = "none"
    /\ \E text \in Texts : ApplyParse(text)

SpecParse == Init /\ [][NextParse]_vars

(* The labels of the first well-formed array of a response text. *)
FirstArray(text) ==
    text[SetMin({k \in 1..Len(text) : text[k].kind = "array"})].labels

(* The candidates with labels applied by position. *)
Labelled(cands, labels) ==
    [i \in 1..Len(cands) |->
        IF i > Len(labels) THEN cands[i]
        ELSE IF labels[i] = "B" THEN [cands[i] EXCEPT !.authority_score = 0, !.final_score = 0]
        ELSE IF labels[i] = "C" THEN [cands[i] EXCEPT !.final_score = (3 * @) \div 10]
        ELSE IF labels[i] = "A" THEN [cands[i] EXCEPT !.final_score = Min2(10000, (12 * @) \div 10)]
        ELSE cands[i]]

(* C26: whenever the response text holds a well-formed JSON array of      *)
(* labels, whatever prose surrounds it, prose with '[' or ']' before or   *)
(* after the array included, the labels of the first well-formed array    *)
(* are extracted and applied to the candidates.                           *)
C26_FirstArrayExtracted ==
    (fn.op = "parse" /\ \E k \in 1..Len(fn.text) : fn.text[k].kind = "array") =>
        /\ fn.labels = Reply("labels", FirstArray(fn.text))
        /\ fn.candidates = Labelled(ParseCandidates, FirstArray(fn.text))

============================================================================
